---- MODULE Spec2Model ----
(***************************************************************************)
(* Model of src/trainer.py: class Trainer (train, valid, get_pred_image,   *)
(* load_trainer, run), the checkpoint file it writes and reads, and the    *)
(* process that runs it (which may be killed and started again).           *)
(*                                                                         *)
(* Floats are modelled as exact rationals <<n, d>> in lowest terms (d > 0);*)
(* rounding of IEEE arithmetic is not modelled.  A state_dict is modelled  *)
(* by the value of the tensors it refers to: Trainer.best_params is a      *)
(* REFERENCE to tensor storage (state_dict() returns the live tensors, it  *)
(* copies nothing), and optimizer steps update that storage in place.      *)
(***************************************************************************)
EXTENDS Integers, Sequences, FiniteSets, TLC

\* ------------------------------------------------------------------ bounds
\* batches (of training and of validation) that all processes together may fetch
MaxWork == 4

\* ------------------------------------------------------- program constants
\* self.best_loss = 1e5
SENTINEL == 100000

\* ------------------------------------------------------------- input domains
\* what a loader's get() can return: a batch, given by the raw mean-squared-error
\* the generator has on it and by the change of the parameters that one optimizer
\* step on its gradient makes (0: the step leaves the parameters as they are)
Batches == {[mse |-> <<1, 10>>, upd |-> 0], [mse |-> <<30000, 1>>, upd |-> 1]}
\* what len() of a loader can report
BatchCounts == {1, 2}
\* the first epoch index run() can be called with
StartEpochs == {0, 1}
\* mse_penalty values the Trainer can be constructed with
Penalties == {1, 5}
\* what a construction can start from: the parameters of the freshly built
\* generator and what validloader.get(batch_size=25) draws
Constructions == {[params |-> 0, draw |-> "drawA"], [params |-> 7, draw |-> "drawB"]}

\* ------------------------------------------------------------------ rationals
RECURSIVE GCD(_, _)
GCD(a, b) == IF b = 0 THEN a ELSE GCD(b, a % b)

Rat(n, d) == LET g == GCD(IF n < 0 THEN -n ELSE n, d) IN <<n \div g, d \div g>>
RatAdd(a, b) == Rat(a[1] * b[2] + b[1] * a[2], a[2] * b[2])
RatMulInt(k, a) == Rat(k * a[1], a[2])
RatDivInt(a, k) == Rat(a[1], a[2] * k)
RatLeq(a, b) == a[1] * b[2] <= b[1] * a[2]
RatLess(a, b) == a[1] * b[2] < b[1] * a[2]
Zero == Rat(0, 1)

NoBatch == [mse |-> Zero, upd |-> 0]
NotKilled == [pc |-> "none", epochs_done |-> 0]

IsPrefix(s, t) == Len(s) <= Len(t) /\ SubSeq(t, 1, Len(s)) = s

\* --------------------------------------------------------------------- state
VARIABLES
    \* the Trainer object
    storage,              \* tensor storage: gen is the live generator's, loaded the last unpickled best_params'
    mode,                 \* generator.train() / generator.eval()
    grads,                \* gradient accumulators: batches whose gradient they hold
    gen_optim,            \* Adam state: number of steps taken
    trainloader,          \* len(self.trainloader)
    validloader,          \* len(self.validloader)
    mse_penalty,
    best_loss,
    best_params,          \* "None", or which storage the state_dict refers to
    test_content_letters,
    test_style_letters,
    test_style_labels,
    train_loss,
    valid_loss,
    test_images,
    could_wandb,
    \* the call in progress
    pc,
    caller,               \* "run" or "direct": who called train() / valid()
    epochs,               \* run()'s argument <<lo, hi>>
    epoch,
    i,                    \* loop index of train() / valid()
    avg_loss,
    batch,                \* the batch the loader returned
    loss,
    pred_image,
    wandb_log,            \* load_trainer's argument, while load_trainer runs
    \* the file at trainer_path
    file,
    \* history variables
    used,                 \* the work of the calls started so far, over all processes: the
                          \* batches they fetch, and one for each load of a record lacking a field
    loaded,               \* load_trainer read a whole record into this Trainer
    only_run,             \* this Trainer was driven by run() alone
    epochs_done,          \* epochs of run() completed by this Trainer
    valid_means,          \* means returned by valid() on this Trainer
    last_mean,            \* <<mean, best_loss before, value of best_params before>> of the last valid()
    snapshot,             \* parameters at the end of the valid() that last set best_loss
    last_epoch,           \* RunState when the last checkpoint was completed
    restored,             \* RunState the last load_trainer read
    killed_at,            \* where the process was when it was killed, after how many epochs
    trace,                \* events of the current train() call
    last_call,
    before_load,          \* RunState before the last load_trainer that raised, and what its record lacked
    resumed               \* k > 0: this Trainer, fresh, loaded the checkpoint of epoch k-1 of a run
                          \* from a fresh Trainer, and was driven by run() alone since

trainer == <<storage, mode, grads, gen_optim, trainloader, validloader, mse_penalty,
             best_loss, best_params, test_content_letters, test_style_letters,
             test_style_labels, train_loss, valid_loss, test_images, could_wandb>>
locals == <<pc, caller, epochs, epoch, i, avg_loss, batch, loss, pred_image, wandb_log>>
history == <<used, loaded, only_run, epochs_done, valid_means, last_mean, snapshot,
             last_epoch, restored, killed_at, trace, last_call, before_load, resumed>>
vars == <<trainer, locals, file, history>>

config == <<trainloader, validloader, mse_penalty, could_wandb>>
fixed_eval_batch == <<test_content_letters, test_style_letters, test_style_labels>>

\* ------------------------------------------------------------------- helpers
\* the value a state_dict reference denotes: <<>> for None, else <<parameters>>
StateDictValue(ref) == IF ref = "None" THEN <<>> ELSE <<storage[ref]>>

\* RunState by value (spec section 3)
RunState ==
    [model_parameters |-> storage.gen,
     best_loss |-> best_loss,
     best_parameters |-> StateDictValue(best_params),
     fixed_eval_batch |-> fixed_eval_batch,
     train_loss_history |-> train_loss,
     valid_loss_history |-> valid_loss,
     sample_image_history |-> test_images]

\* validloader.get(batch_size=25) followed by .to(device).type(float32)
EvalBatchPart(draw, part) == [draw |-> draw, part |-> part]

\* a constructor that starts best_loss at zero
FreshTrainerZeroBest(p, d) ==
    [storage |-> [gen |-> p, loaded |-> 0],
     gen_optim |-> [steps |-> 0],
     best_loss |-> Rat(0, 1),
     best_params |-> "None",
     test_content_letters |-> EvalBatchPart(d, "content"),
     test_style_letters |-> EvalBatchPart(d, "style"),
     test_style_labels |-> EvalBatchPart(d, "labels"),
     train_loss |-> <<>>,
     valid_loss |-> <<>>,
     test_images |-> <<>>]

\* Trainer.__init__ on a generator with parameters p and a validloader drawing d:
\* the fields of the new object
FreshTrainer(p, d) ==
    [storage |-> [gen |-> p, loaded |-> 0],
     gen_optim |-> [steps |-> 0],
     best_loss |-> Rat(SENTINEL, 1),
     best_params |-> "None",
     test_content_letters |-> EvalBatchPart(d, "content"),
     test_style_letters |-> EvalBatchPart(d, "style"),
     test_style_labels |-> EvalBatchPart(d, "labels"),
     train_loss |-> <<>>,
     valid_loss |-> <<>>,
     test_images |-> <<>>]

TrainerInit(t) ==
    /\ storage = t.storage
    /\ mode = "train"
    /\ grads = <<>>
    /\ gen_optim = t.gen_optim
    /\ best_loss = t.best_loss
    /\ best_params = t.best_params
    /\ test_content_letters = t.test_content_letters
    /\ test_style_letters = t.test_style_letters
    /\ test_style_labels = t.test_style_labels
    /\ train_loss = t.train_loss
    /\ valid_loss = t.valid_loss
    /\ test_images = t.test_images

Init ==
    /\ \E c \in Constructions : TrainerInit(FreshTrainer(c.params, c.draw))
    /\ trainloader \in BatchCounts
    /\ validloader \in BatchCounts
    /\ mse_penalty \in Penalties
    /\ could_wandb \in BOOLEAN
    /\ pc = "idle"
    /\ caller = "direct"
    /\ epochs = <<0, 0>>
    /\ epoch = 0
    /\ i = 0
    /\ avg_loss = Zero
    /\ batch = NoBatch
    /\ loss = Zero
    /\ pred_image = <<>>
    /\ wandb_log = FALSE
    /\ file = [state |-> "absent", data |-> <<>>, by_run |-> 0]
    /\ used = 0
    /\ loaded = FALSE
    /\ only_run = TRUE
    /\ epochs_done = 0
    /\ valid_means = <<>>
    /\ last_mean = <<>>
    /\ snapshot = <<>>
    /\ last_epoch = <<>>
    /\ restored = <<>>
    /\ killed_at = NotKilled
    /\ trace = <<>>
    /\ last_call = "init"
    /\ before_load = <<>>
    /\ resumed = 0

\* ---------------------------------------------------------------- train()
Event(e, b, g) == [ev |-> e, batch |-> b, grads |-> g]

\* self.generator.train(); avg_loss = 0; for _ in range(len(self.trainloader))
train_begin ==
    /\ pc = "train_begin"
    /\ mode' = "train"
    /\ avg_loss' = Zero
    /\ i' = 0
    /\ trace' = <<>>
    /\ pc' = "train_get"
    /\ UNCHANGED <<storage, grads, gen_optim, config, best_loss, best_params,
                   fixed_eval_batch, train_loss, valid_loss, test_images>>
    /\ UNCHANGED <<caller, epochs, epoch, batch, loss, pred_image, wandb_log, file>>
    /\ UNCHANGED <<used, loaded, only_run, epochs_done, valid_means, last_mean,
                   snapshot, last_epoch, restored, killed_at, last_call, before_load, resumed>>

\* trainloader.get(), the forward pass, loss = mse_penalty * mse, avg_loss += loss
train_forward ==
    /\ pc = "train_get"
    /\ \E b \in Batches :
          /\ batch' = b
          /\ loss' = RatMulInt(mse_penalty, b.mse)
          /\ avg_loss' = RatAdd(avg_loss, RatMulInt(mse_penalty, b.mse))
    /\ trace' = Append(trace, Event("get", i, <<>>))
    /\ pc' = "train_zero_grad"
    /\ UNCHANGED <<trainer, caller, epochs, epoch, i, pred_image, wandb_log, file>>
    /\ UNCHANGED <<used, loaded, only_run, epochs_done, valid_means, last_mean,
                   snapshot, last_epoch, restored, killed_at, last_call, before_load, resumed>>

\* the step of train() without the zeroing: the accumulators keep what they hold
train_zero_grad_skipped ==
    /\ pc = "train_zero_grad"
    /\ trace' = Append(trace, Event("zero_grad", i, <<>>))
    /\ pc' = "train_backward"
    /\ UNCHANGED <<trainer, caller, epochs, epoch, i, avg_loss, batch, loss, pred_image, wandb_log, file>>
    /\ UNCHANGED <<used, loaded, only_run, epochs_done, valid_means, last_mean,
                   snapshot, last_epoch, restored, killed_at, last_call, before_load, resumed>>

\* self.gen_optim.zero_grad()
train_zero_grad ==
    /\ pc = "train_zero_grad"
    /\ grads' = <<>>
    /\ trace' = Append(trace, Event("zero_grad", i, <<>>))
    /\ pc' = "train_backward"
    /\ UNCHANGED <<storage, mode, gen_optim, config, best_loss, best_params,
                   fixed_eval_batch, train_loss, valid_loss, test_images>>
    /\ UNCHANGED <<caller, epochs, epoch, i, avg_loss, batch, loss, pred_image, wandb_log, file>>
    /\ UNCHANGED <<used, loaded, only_run, epochs_done, valid_means, last_mean,
                   snapshot, last_epoch, restored, killed_at, last_call, before_load, resumed>>

\* loss.backward(): the batch's gradient is added to the accumulators
train_backward ==
    /\ pc = "train_backward"
    /\ grads' = Append(grads, [batch |-> i, upd |-> batch.upd])
    /\ trace' = Append(trace, Event("backward", i, <<>>))
    /\ pc' = "train_step"
    /\ UNCHANGED <<storage, mode, gen_optim, config, best_loss, best_params,
                   fixed_eval_batch, train_loss, valid_loss, test_images>>
    /\ UNCHANGED <<caller, epochs, epoch, i, avg_loss, batch, loss, pred_image, wandb_log, file>>
    /\ UNCHANGED <<used, loaded, only_run, epochs_done, valid_means, last_mean,
                   snapshot, last_epoch, restored, killed_at, last_call, before_load, resumed>>

RECURSIVE SumUpd(_)
SumUpd(g) == IF g = <<>> THEN 0 ELSE Head(g).upd + SumUpd(Tail(g))

\* the storage after one Adam step on the accumulated gradients g: the live
\* parameters are updated in place
OptimStep(st, g) == [st EXCEPT !.gen = @ + SumUpd(g)]

\* self.gen_optim.step()
train_step ==
    /\ pc = "train_step"
    /\ storage' = OptimStep(storage, grads)
    /\ gen_optim' = [steps |-> gen_optim.steps + 1]
    /\ trace' = Append(trace, Event("step", i, grads))
    /\ pc' = "train_log"
    /\ UNCHANGED <<mode, grads, config, best_loss, best_params,
                   fixed_eval_batch, train_loss, valid_loss, test_images>>
    /\ UNCHANGED <<caller, epochs, epoch, i, avg_loss, batch, loss, pred_image, wandb_log, file>>
    /\ UNCHANGED <<used, loaded, only_run, epochs_done, valid_means, last_mean,
                   snapshot, last_epoch, restored, killed_at, last_call, before_load, resumed>>

\* the loss appended twice
TrainAppendTwice(h, l) == Append(Append(h, l), l)

\* the history reset to the newest loss
TrainAppendReset(h, l) == <<l>>

\* self.train_loss.append(loss.item())
TrainAppend(h, l) == Append(h, l)

\* if self.could_wandb: wandb.log(...) returned; self.train_loss.append(loss.item())
train_log ==
    /\ pc = "train_log"
    /\ train_loss' = TrainAppend(train_loss, loss)
    /\ i' = i + 1
    /\ pc' = IF i + 1 < trainloader THEN "train_get" ELSE "train_end"
    /\ UNCHANGED <<storage, mode, grads, gen_optim, config, best_loss, best_params,
                   fixed_eval_batch, valid_loss, test_images>>
    /\ UNCHANGED <<caller, epochs, epoch, avg_loss, batch, loss, pred_image, wandb_log, file>>
    /\ UNCHANGED history

\* wandb.log raised: nothing catches it, the exception leaves train() and run()
train_log_fail ==
    /\ pc = "train_log"
    /\ could_wandb
    /\ pc' = "error"
    /\ last_call' = "sink_failure"
    /\ UNCHANGED <<trainer, caller, epochs, epoch, i, avg_loss, batch, loss, pred_image, wandb_log, file>>
    /\ UNCHANGED <<used, loaded, only_run, epochs_done, valid_means, last_mean,
                   snapshot, last_epoch, restored, killed_at, trace, before_load, resumed>>

\* a train() that returns the sum of the losses, not their mean
train_end_undivided ==
    /\ pc = "train_end"
    /\ pc' = IF caller = "run" THEN "valid_begin" ELSE "idle"
    /\ last_call' = IF caller = "run" THEN last_call ELSE "train"
    /\ UNCHANGED <<trainer, caller, epochs, epoch, i, avg_loss, batch, loss, pred_image,
                   wandb_log, file>>
    /\ UNCHANGED <<used, loaded, only_run, epochs_done, valid_means, last_mean,
                   snapshot, last_epoch, restored, killed_at, trace, before_load, resumed>>

\* a run() whose epoch goes from TRAIN straight to SAMPLE
train_end_skipping_valid ==
    /\ pc = "train_end"
    /\ avg_loss' = RatDivInt(avg_loss, trainloader)
    /\ pc' = IF caller = "run" THEN "sample" ELSE "idle"
    /\ last_call' = IF caller = "run" THEN last_call ELSE "train"
    /\ UNCHANGED <<trainer, caller, epochs, epoch, i, batch, loss, pred_image, wandb_log, file>>
    /\ UNCHANGED <<used, loaded, only_run, epochs_done, valid_means, last_mean,
                   snapshot, last_epoch, restored, killed_at, trace, before_load, resumed>>

\* avg_loss /= len(self.trainloader); return avg_loss
train_end ==
    /\ pc = "train_end"
    /\ avg_loss' = RatDivInt(avg_loss, trainloader)
    /\ pc' = IF caller = "run" THEN "valid_begin" ELSE "idle"
    /\ last_call' = IF caller = "run" THEN last_call ELSE "train"
    /\ UNCHANGED <<trainer, caller, epochs, epoch, i, batch, loss, pred_image, wandb_log, file>>
    /\ UNCHANGED <<used, loaded, only_run, epochs_done, valid_means, last_mean,
                   snapshot, last_epoch, restored, killed_at, trace, before_load, resumed>>

\* ---------------------------------------------------------------- valid()
\* self.generator.eval(); avg_loss = 0; for _ in range(len(self.validloader))
valid_begin ==
    /\ pc = "valid_begin"
    /\ mode' = "eval"
    /\ avg_loss' = Zero
    /\ i' = 0
    /\ pc' = "valid_get"
    /\ UNCHANGED <<storage, grads, gen_optim, config, best_loss, best_params,
                   fixed_eval_batch, train_loss, valid_loss, test_images>>
    /\ UNCHANGED <<caller, epochs, epoch, batch, loss, pred_image, wandb_log, file>>
    /\ UNCHANGED history

\* validloader.get(), the forward pass, loss = mse_penalty * mse, avg_loss += loss
valid_forward ==
    /\ pc = "valid_get"
    /\ \E b \in Batches :
          /\ batch' = b
          /\ loss' = RatMulInt(mse_penalty, b.mse)
          /\ avg_loss' = RatAdd(avg_loss, RatMulInt(mse_penalty, b.mse))
    /\ pc' = "valid_log"
    /\ UNCHANGED <<trainer, caller, epochs, epoch, i, pred_image, wandb_log, file>>
    /\ UNCHANGED history

\* self.valid_loss.append(loss.item())
ValidAppend(h, l) == Append(h, l)

\* a valid() that takes an optimizer step for each batch
valid_log_stepping ==
    /\ pc = "valid_log"
    /\ valid_loss' = ValidAppend(valid_loss, loss)
    /\ storage' = OptimStep(storage, grads)
    /\ gen_optim' = [steps |-> gen_optim.steps + 1]
    /\ i' = i + 1
    /\ pc' = IF i + 1 < validloader THEN "valid_get" ELSE "valid_end"
    /\ UNCHANGED <<mode, grads, config, best_loss, best_params,
                   fixed_eval_batch, train_loss, test_images>>
    /\ UNCHANGED <<caller, epochs, epoch, avg_loss, batch, loss, pred_image, wandb_log, file>>
    /\ UNCHANGED history

\* if self.could_wandb: wandb.log(...) returned; self.valid_loss.append(loss.item())
valid_log ==
    /\ pc = "valid_log"
    /\ valid_loss' = ValidAppend(valid_loss, loss)
    /\ i' = i + 1
    /\ pc' = IF i + 1 < validloader THEN "valid_get" ELSE "valid_end"
    /\ UNCHANGED <<storage, mode, grads, gen_optim, config, best_loss, best_params,
                   fixed_eval_batch, train_loss, test_images>>
    /\ UNCHANGED <<caller, epochs, epoch, avg_loss, batch, loss, pred_image, wandb_log, file>>
    /\ UNCHANGED history

\* wandb.log raised: nothing catches it, the exception leaves valid() and run()
valid_log_fail ==
    /\ pc = "valid_log"
    /\ could_wandb
    /\ pc' = "error"
    /\ last_call' = "sink_failure"
    /\ UNCHANGED <<trainer, caller, epochs, epoch, i, avg_loss, batch, loss, pred_image, wandb_log, file>>
    /\ UNCHANGED <<used, loaded, only_run, epochs_done, valid_means, last_mean,
                   snapshot, last_epoch, restored, killed_at, trace, before_load, resumed>>

\* a policy that takes every mean as the best
ImprovesAlways(mean, best) == TRUE

\* the policy with a strict comparison: a tie keeps the older snapshot
ImprovesStrict(mean, best) == RatLess(mean, best)

\* if avg_loss <= self.best_loss
Improves(mean, best) == RatLeq(mean, best)

\* self.generator.state_dict(): the dict refers to the generator's own tensors
state_dict == "gen"

\* avg_loss /= len(self.validloader); the best-model policy; return avg_loss
valid_end ==
    /\ pc = "valid_end"
    /\ LET mean == RatDivInt(avg_loss, validloader) IN
          /\ avg_loss' = mean
          /\ IF Improves(mean, best_loss)
                THEN /\ best_loss' = mean
                     /\ best_params' = state_dict
                     /\ storage' = [storage EXCEPT !.loaded = 0]
                     /\ snapshot' = <<storage.gen>>
                ELSE UNCHANGED <<best_loss, best_params, storage, snapshot>>
          /\ valid_means' = Append(valid_means, mean)
          /\ last_mean' = <<[mean |-> mean, best_loss |-> best_loss,
                             best_params |-> StateDictValue(best_params)]>>
    /\ pc' = IF caller = "run" THEN "sample" ELSE "idle"
    /\ last_call' = IF caller = "run" THEN last_call ELSE "valid"
    /\ UNCHANGED <<mode, grads, gen_optim, config, fixed_eval_batch,
                   train_loss, valid_loss, test_images>>
    /\ UNCHANGED <<caller, epochs, epoch, i, batch, loss, pred_image, wandb_log, file>>
    /\ UNCHANGED <<used, loaded, only_run, epochs_done, last_epoch, restored,
                   killed_at, trace, before_load, resumed>>

\* ------------------------------------------------------- get_pred_image()
\* the grid image of the generator's output on the fixed content letters and labels
get_pred_image == [params |-> storage.gen,
                   content |-> test_content_letters,
                   labels |-> test_style_labels]

\* a SAMPLE step that draws the evaluation batch again
sample_redrawing ==
    /\ pc = "sample"
    /\ mode' = "eval"
    /\ test_content_letters' = EvalBatchPart("redraw", "content")
    /\ test_style_letters' = EvalBatchPart("redraw", "style")
    /\ test_style_labels' = EvalBatchPart("redraw", "labels")
    /\ pred_image' = <<get_pred_image>>
    /\ pc' = "sample_log"
    /\ UNCHANGED <<storage, grads, gen_optim, config, best_loss, best_params,
                   train_loss, valid_loss, test_images>>
    /\ UNCHANGED <<caller, epochs, epoch, i, avg_loss, batch, loss, wandb_log, file>>
    /\ UNCHANGED history

\* pred_image = self.get_pred_image()
sample ==
    /\ pc = "sample"
    /\ mode' = "eval"
    /\ pred_image' = <<get_pred_image>>
    /\ pc' = "sample_log"
    /\ UNCHANGED <<storage, grads, gen_optim, config, best_loss, best_params,
                   fixed_eval_batch, train_loss, valid_loss, test_images>>
    /\ UNCHANGED <<caller, epochs, epoch, i, avg_loss, batch, loss, wandb_log, file>>
    /\ UNCHANGED history

\* if self.could_wandb: wandb.log(...) returned; self.test_images.append(pred_image)
sample_log ==
    /\ pc = "sample_log"
    /\ test_images' = Append(test_images, pred_image[1])
    /\ pc' = "ckpt_open"
    /\ UNCHANGED <<storage, mode, grads, gen_optim, config, best_loss, best_params,
                   fixed_eval_batch, train_loss, valid_loss>>
    /\ UNCHANGED <<caller, epochs, epoch, i, avg_loss, batch, loss, pred_image, wandb_log, file>>
    /\ UNCHANGED history

\* wandb.log raised: nothing catches it, the exception leaves run()
sample_log_fail ==
    /\ pc = "sample_log"
    /\ could_wandb
    /\ pc' = "error"
    /\ last_call' = "sink_failure"
    /\ UNCHANGED <<trainer, caller, epochs, epoch, i, avg_loss, batch, loss, pred_image, wandb_log, file>>
    /\ UNCHANGED <<used, loaded, only_run, epochs_done, valid_means, last_mean,
                   snapshot, last_epoch, restored, killed_at, trace, before_load, resumed>>

\* ------------------------------------------------------------------ run()
\* the record without the epoch's sample image, as if written before the append
trainer_data_before_sample ==
    [generator_params |-> storage[state_dict],
     best_loss |-> best_loss,
     best_params |-> StateDictValue(best_params),
     test_content_letters |-> test_content_letters,
     test_style_letters |-> test_style_letters,
     test_style_labels |-> test_style_labels,
     test_images |-> SubSeq(test_images, 1, Len(test_images) - 1),
     train_loss |-> train_loss,
     valid_loss |-> valid_loss]

\* the record pickle.dump writes: every tensor and list by value
trainer_data ==
    [generator_params |-> storage[state_dict],
     best_loss |-> best_loss,
     best_params |-> StateDictValue(best_params),
     test_content_letters |-> test_content_letters,
     test_style_letters |-> test_style_letters,
     test_style_labels |-> test_style_labels,
     test_images |-> test_images,
     train_loss |-> train_loss,
     valid_loss |-> valid_loss]

\* run(epochs=(lo, hi), trainer_path): for epoch in range(*epochs)
run_call ==
    /\ pc = "idle"
    /\ \E lo \in StartEpochs, n \in 0..MaxWork :
          /\ n * (trainloader + validloader) <= MaxWork - used
          /\ epochs' = <<lo, lo + n>>
          /\ epoch' = lo
          /\ used' = used + n * (trainloader + validloader)
          /\ pc' = IF n > 0 THEN "train_begin" ELSE "idle"
    /\ caller' = "run"
    /\ last_call' = "run"
    /\ UNCHANGED <<trainer, i, avg_loss, batch, loss, pred_image, wandb_log, file>>
    /\ UNCHANGED <<loaded, only_run, epochs_done, valid_means, last_mean, snapshot,
                   last_epoch, restored, killed_at, trace, before_load, resumed>>

\* with open(trainer_path, "wb") as f: the file is created or truncated
checkpoint_open ==
    /\ pc = "ckpt_open"
    /\ file' = [state |-> "truncated", data |-> <<>>, by_run |-> 0]
    /\ pc' = "ckpt_dump"
    /\ UNCHANGED <<trainer, caller, epochs, epoch, i, avg_loss, batch, loss, pred_image, wandb_log>>
    /\ UNCHANGED history

\* pickle.dump(trainer_data, f, pickle.HIGHEST_PROTOCOL) and the close of the file
checkpoint_dump ==
    /\ pc = "ckpt_dump"
    /\ file' = [state |-> "complete", data |-> <<trainer_data>>,
                by_run |-> IF only_run THEN epochs_done + 1 ELSE 0]
    /\ last_epoch' = <<RunState>>
    /\ pc' = "config_update"
    /\ UNCHANGED <<trainer, caller, epochs, epoch, i, avg_loss, batch, loss, pred_image, wandb_log>>
    /\ UNCHANGED <<used, loaded, only_run, epochs_done, valid_means, last_mean,
                   snapshot, restored, killed_at, trace, last_call,
                   before_load, resumed>>

\* if self.could_wandb: wandb.config.update(...) returned; the next epoch, or return
config_update ==
    /\ pc = "config_update"
    /\ epoch' = epoch + 1
    /\ epochs_done' = epochs_done + 1
    /\ pc' = IF epoch + 1 < epochs[2] THEN "train_begin" ELSE "idle"
    /\ UNCHANGED <<trainer, caller, epochs, i, avg_loss, batch, loss, pred_image, wandb_log, file>>
    /\ UNCHANGED <<used, loaded, only_run, valid_means, last_mean, snapshot,
                   last_epoch, restored, killed_at, trace, last_call, before_load, resumed>>

\* wandb.config.update raised: nothing catches it, the exception leaves run()
config_update_fail ==
    /\ pc = "config_update"
    /\ could_wandb
    /\ pc' = "error"
    /\ last_call' = "sink_failure"
    /\ UNCHANGED <<trainer, caller, epochs, epoch, i, avg_loss, batch, loss, pred_image, wandb_log, file>>
    /\ UNCHANGED <<used, loaded, only_run, epochs_done, valid_means, last_mean,
                   snapshot, last_epoch, restored, killed_at, trace, before_load, resumed>>

\* ------------------------------------------------ direct calls of the methods
\* trainer.train() called by the user
train_call ==
    /\ pc = "idle"
    /\ used + trainloader <= MaxWork
    /\ used' = used + trainloader
    /\ caller' = "direct"
    /\ only_run' = FALSE
    /\ resumed' = 0
    /\ pc' = "train_begin"
    /\ UNCHANGED <<trainer, epochs, epoch, i, avg_loss, batch, loss, pred_image, wandb_log, file>>
    /\ UNCHANGED <<loaded, epochs_done, valid_means, last_mean, snapshot,
                   last_epoch, restored, killed_at, trace, last_call, before_load>>

\* trainer.valid() called by the user
valid_call ==
    /\ pc = "idle"
    /\ used + validloader <= MaxWork
    /\ used' = used + validloader
    /\ caller' = "direct"
    /\ only_run' = FALSE
    /\ resumed' = 0
    /\ pc' = "valid_begin"
    /\ UNCHANGED <<trainer, epochs, epoch, i, avg_loss, batch, loss, pred_image, wandb_log, file>>
    /\ UNCHANGED <<loaded, epochs_done, valid_means, last_mean, snapshot,
                   last_epoch, restored, killed_at, trace, last_call, before_load>>

\* ---------------------------------------------------------- load_trainer()
\* load_trainer dropping the sample images of the record
LoadFieldsNoImages(d) ==
    [storage |-> [gen |-> d.generator_params,
                  loaded |-> IF d.best_params = <<>> THEN 0 ELSE d.best_params[1]],
     best_loss |-> d.best_loss,
     best_params |-> IF d.best_params = <<>> THEN "None" ELSE "loaded",
     test_content_letters |-> d.test_content_letters,
     test_style_letters |-> d.test_style_letters,
     test_style_labels |-> d.test_style_labels,
     test_images |-> <<>>,
     train_loss |-> d.train_loss,
     valid_loss |-> d.valid_loss]

\* load_trainer restoring valid_loss from the wrong field
LoadFieldsSwapped(d) ==
    [storage |-> [gen |-> d.generator_params,
                  loaded |-> IF d.best_params = <<>> THEN 0 ELSE d.best_params[1]],
     best_loss |-> d.best_loss,
     best_params |-> IF d.best_params = <<>> THEN "None" ELSE "loaded",
     test_content_letters |-> d.test_content_letters,
     test_style_letters |-> d.test_style_letters,
     test_style_labels |-> d.test_style_labels,
     test_images |-> d.test_images,
     train_loss |-> d.train_loss,
     valid_loss |-> d.train_loss]

\* the assignments of load_trainer from the unpickled record d
LoadFields(d) ==
    [storage |-> [gen |-> d.generator_params,
                  loaded |-> IF d.best_params = <<>> THEN 0 ELSE d.best_params[1]],
     best_loss |-> d.best_loss,
     best_params |-> IF d.best_params = <<>> THEN "None" ELSE "loaded",
     test_content_letters |-> d.test_content_letters,
     test_style_letters |-> d.test_style_letters,
     test_style_labels |-> d.test_style_labels,
     test_images |-> d.test_images,
     train_loss |-> d.train_loss,
     valid_loss |-> d.valid_loss]

\* if wandb_log and self.could_wandb: the restored history is replayed
Replays(w) == w /\ could_wandb

\* load_trainer(path, wandb_log) on a file that unpickles to a record with all fields
load_trainer ==
    /\ pc = "idle"
    /\ file.state = "complete"
    /\ LET t == LoadFields(file.data[1]) IN
          /\ storage' = t.storage
          /\ best_loss' = t.best_loss
          /\ best_params' = t.best_params
          /\ test_content_letters' = t.test_content_letters
          /\ test_style_letters' = t.test_style_letters
          /\ test_style_labels' = t.test_style_labels
          /\ test_images' = t.test_images
          /\ train_loss' = t.train_loss
          /\ valid_loss' = t.valid_loss
          /\ snapshot' = file.data[1].best_params
    /\ restored' = file.data
    /\ loaded' = TRUE
    /\ only_run' = FALSE
    /\ resumed' = IF last_call = "init" THEN file.by_run ELSE 0
    /\ \E w \in BOOLEAN :
          /\ pc' = IF Replays(w) THEN "load_replay" ELSE "idle"
          /\ wandb_log' = IF Replays(w) THEN w ELSE FALSE
          /\ last_call' = IF Replays(w) THEN last_call ELSE "load"
    /\ UNCHANGED <<mode, grads, gen_optim, config>>
    /\ UNCHANGED <<caller, epochs, epoch, i, avg_loss, batch, loss, pred_image, file>>
    /\ UNCHANGED <<used, epochs_done, valid_means, last_mean, last_epoch,
                   killed_at, trace, before_load>>

\* a replay that appends the losses it emits to train_loss again
load_replay_appending ==
    /\ pc = "load_replay"
    /\ pc' = "idle"
    /\ last_call' = "load"
    /\ wandb_log' = FALSE
    /\ train_loss' = train_loss \o train_loss
    /\ UNCHANGED <<storage, mode, grads, gen_optim, config, best_loss, best_params,
                   fixed_eval_batch, valid_loss, test_images>>
    /\ UNCHANGED <<caller, epochs, epoch, i, avg_loss, batch, loss, pred_image, file>>
    /\ UNCHANGED <<used, loaded, only_run, epochs_done, valid_means, last_mean,
                   snapshot, last_epoch, restored, killed_at, trace, before_load, resumed>>

\* the replay of the restored history through wandb returned
load_replay ==
    /\ pc = "load_replay"
    /\ pc' = "idle"
    /\ last_call' = "load"
    /\ wandb_log' = FALSE
    /\ UNCHANGED <<trainer, caller, epochs, epoch, i, avg_loss, batch, loss, pred_image, file>>
    /\ UNCHANGED <<used, loaded, only_run, epochs_done, valid_means, last_mean,
                   snapshot, last_epoch, restored, killed_at, trace, before_load, resumed>>

\* a wandb call of the replay raised: the exception leaves load_trainer
load_replay_fail ==
    /\ pc = "load_replay"
    /\ pc' = "error"
    /\ last_call' = "replay_failure"
    /\ wandb_log' = FALSE
    /\ UNCHANGED <<trainer, caller, epochs, epoch, i, avg_loss, batch, loss, pred_image, file>>
    /\ UNCHANGED <<used, loaded, only_run, epochs_done, valid_means, last_mean,
                   snapshot, last_epoch, restored, killed_at, trace, before_load, resumed>>

\* open() or pickle.load() raised (no file, or a truncated one): nothing assigned
load_fail ==
    /\ pc = "idle"
    /\ file.state # "complete"
    /\ pc' = "error"
    /\ last_call' = "load_error"
    /\ before_load' = <<[state |-> RunState, lacks |-> "file"]>>
    /\ resumed' = 0
    /\ UNCHANGED <<trainer, caller, epochs, epoch, i, avg_loss, batch, loss, pred_image, wandb_log, file>>
    /\ UNCHANGED <<used, loaded, only_run, epochs_done, valid_means, last_mean,
                   snapshot, last_epoch, restored, killed_at, trace>>

\* the keys load_trainer reads from the record, in the order it reads them
LoadOrder == <<"generator_params", "best_loss", "best_params", "test_content_letters",
               "test_style_letters", "test_style_labels", "test_images",
               "train_loss", "valid_loss">>
Fields == {LoadOrder[k] : k \in 1..Len(LoadOrder)}

\* a record like d without the field f
Lacking(d, f) == [g \in DOMAIN d \ {f} |-> d[g]]

\* the position in LoadOrder of the first key the record d does not have
FirstMissing(d) ==
    LET miss == {k \in 1..Len(LoadOrder) : LoadOrder[k] \notin DOMAIN d} IN
    IF miss = {} THEN Len(LoadOrder) + 1
    ELSE CHOOSE k \in miss : \A j \in miss : k <= j

\* a load that substitutes a default for a missing key and returns
LoadOutcomeLenient(d) == "idle"

\* trainer_data[key] on a missing key raises KeyError, which nothing catches
LoadOutcome(d) == IF FirstMissing(d) <= Len(LoadOrder) THEN "error" ELSE "idle"

\* load_trainer on a file that unpickles to a record without the field f: the
\* assignments before the first missing key have been made when KeyError is raised.
\* The exception ends the program, so the locals of the calls before it and the
\* history kept about them are dropped, as a restart drops them.
load_trainer_missing ==
    /\ pc = "idle"
    /\ file.state = "complete"
    /\ used + 1 <= MaxWork
    /\ used' = used + 1
    /\ \E f \in Fields :
          LET d == Lacking(file.data[1], f)
              Has(g) == \E k \in 1..(FirstMissing(d) - 1) : LoadOrder[k] = g
          IN
          /\ storage' =
                [gen |-> IF Has("generator_params") THEN d.generator_params
                         ELSE storage.gen,
                 loaded |-> IF Has("best_params")
                            THEN (IF d.best_params = <<>> THEN 0 ELSE d.best_params[1])
                            ELSE storage.loaded]
          /\ best_loss' = IF Has("best_loss") THEN d.best_loss ELSE best_loss
          /\ best_params' =
                IF Has("best_params")
                THEN (IF d.best_params = <<>> THEN "None" ELSE "loaded")
                ELSE best_params
          /\ test_content_letters' =
                IF Has("test_content_letters") THEN d.test_content_letters
                ELSE test_content_letters
          /\ test_style_letters' =
                IF Has("test_style_letters") THEN d.test_style_letters
                ELSE test_style_letters
          /\ test_style_labels' =
                IF Has("test_style_labels") THEN d.test_style_labels
                ELSE test_style_labels
          /\ test_images' = IF Has("test_images") THEN d.test_images ELSE test_images
          /\ train_loss' = IF Has("train_loss") THEN d.train_loss ELSE train_loss
          /\ valid_loss' = IF Has("valid_loss") THEN d.valid_loss ELSE valid_loss
          /\ snapshot' = IF Has("best_params") THEN d.best_params ELSE snapshot
          /\ pc' = LoadOutcome(d)
          /\ before_load' = <<[state |-> RunState, lacks |-> f]>>
    /\ last_call' = "key_error"
    /\ restored' = <<>>
    /\ loaded' = FALSE
    /\ only_run' = FALSE
    /\ resumed' = 0
    /\ caller' = "direct"
    /\ epochs' = <<0, 0>>
    /\ epoch' = 0
    /\ i' = 0
    /\ avg_loss' = Zero
    /\ batch' = NoBatch
    /\ loss' = Zero
    /\ pred_image' = <<>>
    /\ epochs_done' = 0
    /\ valid_means' = <<>>
    /\ last_mean' = <<>>
    /\ killed_at' = NotKilled
    /\ trace' = <<>>
    /\ UNCHANGED <<mode, grads, gen_optim, config, wandb_log, file, last_epoch>>

\* ------------------------------------------------------------- the process
InCall == pc \notin {"idle", "error", "dead"}

\* the process is killed in the middle of a call: its memory is gone, the file stays
kill ==
    /\ InCall
    /\ killed_at' = [pc |-> pc, epochs_done |-> epochs_done]
    /\ pc' = "dead"
    /\ LET t == FreshTrainer(0, "none") IN
          /\ storage' = t.storage
          /\ gen_optim' = t.gen_optim
          /\ best_loss' = t.best_loss
          /\ best_params' = t.best_params
          /\ test_content_letters' = t.test_content_letters
          /\ test_style_letters' = t.test_style_letters
          /\ test_style_labels' = t.test_style_labels
          /\ train_loss' = t.train_loss
          /\ valid_loss' = t.valid_loss
          /\ test_images' = t.test_images
    /\ mode' = "train"
    /\ grads' = <<>>
    /\ caller' = "direct"
    /\ epochs' = <<0, 0>>
    /\ epoch' = 0
    /\ i' = 0
    /\ avg_loss' = Zero
    /\ batch' = NoBatch
    /\ loss' = Zero
    /\ pred_image' = <<>>
    /\ wandb_log' = FALSE
    /\ loaded' = FALSE
    /\ only_run' = TRUE
    /\ epochs_done' = 0
    /\ valid_means' = <<>>
    /\ last_mean' = <<>>
    /\ snapshot' = <<>>
    /\ restored' = <<>>
    /\ trace' = <<>>
    /\ last_call' = "killed"
    /\ before_load' = <<>>
    /\ resumed' = 0
    /\ UNCHANGED <<config, file, used, last_epoch>>

\* a new process constructs a fresh Trainer with the same configuration; only
\* the file survives
restart ==
    /\ ~InCall
    /\ \E c \in Constructions :
          LET t == FreshTrainer(c.params, c.draw) IN
          /\ storage' = t.storage
          /\ gen_optim' = t.gen_optim
          /\ best_loss' = t.best_loss
          /\ best_params' = t.best_params
          /\ test_content_letters' = t.test_content_letters
          /\ test_style_letters' = t.test_style_letters
          /\ test_style_labels' = t.test_style_labels
          /\ train_loss' = t.train_loss
          /\ valid_loss' = t.valid_loss
          /\ test_images' = t.test_images
    /\ mode' = "train"
    /\ grads' = <<>>
    /\ pc' = "idle"
    /\ caller' = "direct"
    /\ epochs' = <<0, 0>>
    /\ epoch' = 0
    /\ i' = 0
    /\ avg_loss' = Zero
    /\ batch' = NoBatch
    /\ loss' = Zero
    /\ pred_image' = <<>>
    /\ wandb_log' = FALSE
    /\ loaded' = FALSE
    /\ only_run' = TRUE
    /\ epochs_done' = 0
    /\ valid_means' = <<>>
    /\ last_mean' = <<>>
    /\ snapshot' = <<>>
    /\ restored' = <<>>
    /\ killed_at' = NotKilled
    /\ trace' = <<>>
    /\ last_call' = "init"
    /\ before_load' = <<>>
    /\ resumed' = 0
    /\ UNCHANGED <<config, file, used, last_epoch>>

\* --------------------------------------------------------- specification
Next ==
    \/ run_call \/ train_call \/ valid_call
    \/ train_begin \/ train_forward \/ train_zero_grad \/ train_backward
    \/ train_step \/ train_log \/ train_log_fail \/ train_end
    \/ valid_begin \/ valid_forward \/ valid_log \/ valid_log_fail \/ valid_end
    \/ sample \/ sample_log \/ sample_log_fail
    \/ checkpoint_open \/ checkpoint_dump \/ config_update \/ config_update_fail
    \/ load_trainer \/ load_replay \/ load_replay_fail \/ load_fail
    \/ load_trainer_missing
    \/ kill \/ restart

Spec == Init /\ [][Next]_vars

TypeOK ==
    /\ pc \in {"idle", "error", "dead", "train_begin", "train_get", "train_zero_grad",
               "train_backward", "train_step", "train_log", "train_end",
               "valid_begin", "valid_get", "valid_log", "valid_end",
               "sample", "sample_log", "ckpt_open", "ckpt_dump", "config_update",
               "load_replay"}
    /\ best_params \in {"None", "gen", "loaded"}
    /\ used \in 0..MaxWork
    /\ file.state \in {"absent", "truncated", "complete"}

\* ------------------------------------------------------------------ claims
TrainPcs == {"train_begin", "train_get", "train_zero_grad", "train_backward",
             "train_step", "train_log", "train_end"}
ValidPcs == {"valid_begin", "valid_get", "valid_log", "valid_end"}
SamplePcs == {"sample", "sample_log"}
CheckpointPcs == {"ckpt_open", "ckpt_dump"}

\* valid() has just returned
AfterValid == last_mean # <<>> /\ (pc = "sample" \/ (pc = "idle" /\ last_call = "valid"))

\* C1: at the end of every validation epoch, a mean less than or equal to the
\* best_loss of before makes best_loss the mean and best_params the current model
\* parameters; a greater mean leaves best_loss and best_params as they were.
C1_BestModelPolicy ==
    AfterValid =>
        LET m == last_mean[1] IN
        IF RatLeq(m.mean, m.best_loss)
            THEN /\ best_loss = m.mean
                 /\ best_params = state_dict
                 /\ StateDictValue(best_params) = <<storage.gen>>
            ELSE /\ best_loss = m.best_loss
                 /\ StateDictValue(best_params) = m.best_params

\* a validation epoch whose mean ties the best loss a checkpoint restored
C1_Witness ==
    /\ AfterValid
    /\ loaded
    /\ last_mean[1].mean = last_mean[1].best_loss
    /\ best_params = state_dict

\* C2: best_params holds the parameter values the model had at the end of the
\* validation epoch that last set best_loss, whatever train() did since.
C2_SnapshotFidelity ==
    (snapshot # <<>> /\ pc # "dead") => StateDictValue(best_params) = snapshot

RECURSIVE MinOf(_)
MinOf(q) ==
    IF Len(q) = 1 THEN q[1]
    ELSE LET r == MinOf(Tail(q)) IN IF RatLeq(q[1], r) THEN q[1] ELSE r

\* C3: on a Trainer that was constructed and never loaded, best_loss is the
\* minimum of the validation means so far, and is the sentinel only when no
\* validation epoch has completed.
C3_BestLossIsMinimum ==
    (~loaded /\ pc # "dead") =>
        IF valid_means = <<>>
            THEN best_loss = Rat(SENTINEL, 1)
            ELSE best_loss = MinOf(valid_means) /\ best_loss # Rat(SENTINEL, 1)

\* C4: on a Trainer that was constructed and never loaded, best_params is not
\* None exactly when a call of valid() has completed.
C4_BestParamsIffValidated ==
    (~loaded /\ pc # "dead") => (best_params # "None" <=> valid_means # <<>>)

\* the RunState a checkpoint record holds
RecordState(d) ==
    [model_parameters |-> d.generator_params,
     best_loss |-> d.best_loss,
     best_parameters |-> d.best_params,
     fixed_eval_batch |-> <<d.test_content_letters, d.test_style_letters,
                            d.test_style_labels>>,
     train_loss_history |-> d.train_loss,
     valid_loss_history |-> d.valid_loss,
     sample_image_history |-> d.test_images]

\* load_trainer has just returned
AfterLoad == pc = "idle" /\ last_call = "load"

\* C5: after load_trainer on the file an epoch of run() wrote, the histories,
\* best_loss, best_params, the sample images, the fixed evaluation batch and the
\* model parameters have the values they had when the file was written.
C5_CheckpointRoundTrip ==
    AfterLoad => RunState = last_epoch[1]

\* a fresh Trainer, constructed with another draw and other parameters, has loaded
\* a checkpoint with a best model, losses and an image
C5_Witness ==
    /\ AfterLoad
    /\ gen_optim.steps = 0
    /\ epochs_done = 0
    /\ best_params = "loaded"
    /\ Len(test_images) >= 1
    /\ Len(train_loss) >= 1
    /\ test_images[1].content # test_content_letters \/ storage.gen # 0

\* the file holds, complete, the RunState of the last completed epoch
FileHoldsLastEpoch ==
    /\ file.state = "complete"
    /\ RecordState(file.data[1]) = last_epoch[1]

\* C6 as stated: a kill in the TRAIN, EVAL, SAMPLE or CHECKPOINT step of an epoch,
\* after the process completed an earlier epoch, leaves the file holding the
\* complete RunState of the last completed epoch.
C6_CrashGranularity ==
    (/\ pc = "dead"
     /\ killed_at.epochs_done >= 1
     /\ killed_at.pc \in TrainPcs \cup ValidPcs \cup SamplePcs \cup CheckpointPcs)
        => FileHoldsLastEpoch

\* C6 as amended: the same for a kill before the epoch's checkpoint file is
\* opened for writing (TRAIN, EVAL, SAMPLE, and CHECKPOINT up to the open).
C6_CrashBeforeWrite ==
    (/\ pc = "dead"
     /\ killed_at.epochs_done >= 1
     /\ killed_at.pc \in TrainPcs \cup ValidPcs \cup SamplePcs \cup {"ckpt_open"})
        => FileHoldsLastEpoch

\* the process was killed in the SAMPLE step of its second epoch
C6_Witness ==
    /\ pc = "dead"
    /\ killed_at.epochs_done >= 1
    /\ killed_at.pc = "sample_log"
    /\ FileHoldsLastEpoch

\* C7: a failure of a wandb call in a training batch, a validation batch, the
\* sample emit or the config update is not propagated.
C7_SinkFailureNotFatal ==
    ~(pc = "error" /\ last_call = "sink_failure")

\* the Trainer is between two epochs of run(), or run() has returned
BetweenEpochs == pc = "idle" \/ (pc = "train_begin" /\ caller = "run")

\* C8: on a freshly constructed Trainer driven by run() alone, after N completed
\* epochs len(train_loss) = N * T and len(valid_loss) = N * V, and inside an
\* epoch each batch has added exactly one entry.
C8_HistoryLengths ==
    only_run =>
        /\ BetweenEpochs =>
              /\ Len(train_loss) = epochs_done * trainloader
              /\ Len(valid_loss) = epochs_done * validloader
        /\ pc \in {"train_get", "train_end"} =>
              /\ Len(train_loss) = epochs_done * trainloader + i
              /\ Len(valid_loss) = epochs_done * validloader
        /\ pc \in {"valid_get", "valid_end"} =>
              /\ Len(train_loss) = (epochs_done + 1) * trainloader
              /\ Len(valid_loss) = epochs_done * validloader + i

\* run() has returned after two completed epochs
C8_Witness ==
    /\ only_run
    /\ pc = "idle"
    /\ last_call = "run"
    /\ epochs_done = 2
    /\ Len(train_loss) = 2 * trainloader
    /\ Len(valid_loss) = 2 * validloader

\* a step of train(), valid() or run(): not a load, not a kill, not a construction
CallStep ==
    /\ pc' # "dead"
    /\ last_call' # "init"
    /\ ~(pc = "idle" /\ (pc' = "load_replay" \/ last_call' \in {"load", "key_error"}))

\* C9: over the steps of train(), valid() and run() the earlier train_loss,
\* valid_loss and test_images are prefixes of the later ones, and after a load the
\* histories of the checkpoint stay a prefix of the Trainer's.
C9_AppendOnly ==
    /\ [][CallStep =>
            /\ IsPrefix(train_loss, train_loss')
            /\ IsPrefix(valid_loss, valid_loss')
            /\ IsPrefix(test_images, test_images')]_vars
    /\ [](loaded =>
            /\ IsPrefix(restored[1].train_loss, train_loss)
            /\ IsPrefix(restored[1].valid_loss, valid_loss)
            /\ IsPrefix(restored[1].test_images, test_images))

\* a Trainer that loaded a checkpoint with losses in it has trained further
C9_Witness ==
    /\ loaded
    /\ Len(restored[1].train_loss) >= 1
    /\ Len(train_loss) > Len(restored[1].train_loss)
    /\ IsPrefix(restored[1].train_loss, train_loss)

EventNames == <<"get", "zero_grad", "backward", "step">>

\* the k-th event of a train() call is the one the loop body prescribes, and a
\* step applies the gradient of its own batch alone
EventInOrder(k) ==
    LET e == trace[k] IN
    /\ e.ev = EventNames[((k - 1) % 4) + 1]
    /\ e.batch = (k - 1) \div 4
    /\ e.ev = "step" => (Len(e.grads) = 1 /\ e.grads[1].batch = e.batch)

\* C10: a call of train() runs, for each of the T batches in turn, zero_grad,
\* backward and one optimizer step on that batch's gradient alone before the next
\* batch is fetched, and has taken exactly T steps when it returns.
C10_ExactlyOnceSteps ==
    /\ \A k \in 1..Len(trace) : EventInOrder(k)
    /\ pc = "train_end" => Len(trace) = 4 * trainloader
    /\ pc = "train_get" => Len(trace) = 4 * i

\* a train() call over two batches is about to return
C10_Witness ==
    /\ pc = "train_end"
    /\ trainloader = 2
    /\ Len(trace) = 8
    /\ trace[8].ev = "step"

\* a step of run() that neither raises nor is cut by a kill
RunStep == caller = "run" /\ pc # "idle" /\ pc' \notin {"dead", "error"}

\* the order of the steps of one epoch of run()
PhaseOrder ==
    /\ pc \in TrainPcs => pc' \in TrainPcs \cup {"valid_begin"}
    /\ pc' = "valid_begin" => (pc = "train_end" /\ i = trainloader)
    /\ pc \in ValidPcs => pc' \in ValidPcs \cup {"sample"}
    /\ pc' = "sample" =>
          /\ pc = "valid_end"
          /\ i = validloader
          /\ best_loss' = IF RatLeq(avg_loss', best_loss) THEN avg_loss' ELSE best_loss
    /\ pc \in SamplePcs => pc' \in SamplePcs \cup {"ckpt_open"}
    /\ pc' = "ckpt_open" =>
          /\ pc = "sample_log"
          /\ test_images' = Append(test_images, get_pred_image)
    /\ pc \in CheckpointPcs => pc' \in CheckpointPcs \cup {"config_update"}
    /\ pc' = "config_update" => pc = "ckpt_dump"
    /\ pc = "config_update" =>
          /\ pc' = IF epoch + 1 < epochs[2] THEN "train_begin" ELSE "idle"
          /\ epochs_done' = epochs_done + 1

\* the file holds, complete, the RunState the Trainer has now
FileHoldsRunState ==
    /\ file.state = "complete"
    /\ RecordState(file.data[1]) = RunState

\* C11: in every epoch of run() the steps happen in the order TRAIN over all
\* training batches, EVAL over all validation batches with the best-model policy,
\* SAMPLE appending one image, CHECKPOINT; the file is written only in the
\* CHECKPOINT step, once for each completed epoch, and the record written holds
\* the epoch's losses, best-model state and sample image.
C11_EpochOrdering ==
    /\ [][RunStep => PhaseOrder]_vars
    /\ [][file' # file => (caller = "run" /\ pc \in CheckpointPcs)]_vars
    /\ [][epochs_done' = epochs_done + 1 => (file' = file /\ FileHoldsRunState)]_vars
    /\ [](pc = "config_update" =>
            /\ FileHoldsRunState
            /\ Len(file.data[1].train_loss) >= trainloader
            /\ Len(file.data[1].valid_loss) >= validloader
            /\ file.data[1].best_loss = best_loss
            /\ file.data[1].best_params = StateDictValue(best_params)
            /\ file.data[1].test_images[Len(test_images)] = pred_image[1])

\* the checkpoint of the second epoch of a run() has just been written
C11_Witness ==
    /\ pc = "config_update"
    /\ only_run
    /\ epochs_done = 1
    /\ FileHoldsRunState
    /\ Len(file.data[1].test_images) = 2
    /\ Len(file.data[1].train_loss) = 2 * trainloader

\* C12: whenever load_trainer returns, whatever was called before it, the
\* optimizer holds no moment estimates from steps taken before the load.
C12_OptimizerFreshAfterLoad ==
    AfterLoad => gen_optim.steps = 0

\* C13: load_trainer on a record that lacks one of the nine fields ends in an
\* error raised to the caller; it never returns normally.
C13_MissingFieldFatal ==
    (before_load # <<>> /\ before_load[1].lacks \in Fields) =>
        (pc = "error" /\ last_call = "key_error")

\* load_trainer has raised on a record that lacks only the field it reads last
C13_Witness ==
    /\ pc = "error"
    /\ last_call = "key_error"
    /\ before_load # <<>>
    /\ before_load[1].lacks = "valid_loss"

\* C14: load_trainer leaves the RunState of the record it read, whether the
\* replay through wandb is performed, skipped or fails, and the replay is
\* performed only when wandb_log and could_wandb are both true.
C14_ReplayFrame ==
    /\ pc = "load_replay" => (wandb_log /\ could_wandb)
    /\ (\/ pc = "load_replay"
        \/ AfterLoad
        \/ (pc = "error" /\ last_call = "replay_failure"))
          => RunState = RecordState(restored[1])

\* the replay of a checkpoint with losses and an image is in progress
C14_Witness ==
    /\ pc = "load_replay"
    /\ wandb_log
    /\ Len(train_loss) >= 1
    /\ Len(test_images) >= 1
    /\ RunState = RecordState(restored[1])

\* C15: a call of valid() leaves best_loss less than or equal to what it was,
\* and no step of train(), get_pred_image() or the checkpoint changes best_loss.
C15_BestLossNonIncreasing ==
    [][CallStep =>
          /\ RatLeq(best_loss', best_loss)
          /\ pc # "valid_end" => best_loss' = best_loss]_vars

\* a second valid() with a greater mean has left the best_loss of the first
C15_Witness ==
    /\ AfterValid
    /\ Len(valid_means) >= 2
    /\ RatLess(last_mean[1].best_loss, last_mean[1].mean)
    /\ RatLess(best_loss, Rat(SENTINEL, 1))
    /\ best_loss = last_mean[1].best_loss

RECURSIVE SumSeq(_)
SumSeq(q) == IF q = <<>> THEN Zero ELSE RatAdd(Head(q), SumSeq(Tail(q)))

\* the last n entries of the history h
LastN(h, n) == SubSeq(h, Len(h) - n + 1, Len(h))

\* train() has just returned
AfterTrain ==
    \/ (pc = "valid_begin" /\ caller = "run")
    \/ (pc = "idle" /\ last_call = "train")

\* the scenario of the specification: penalty 5, raw losses 0.1, 0.2, 0.1, 0.0
ScenarioRaw == <<Rat(1, 10), Rat(2, 10), Rat(1, 10), Rat(0, 1)>>
ScenarioRecorded == <<RatMulInt(5, ScenarioRaw[1]), RatMulInt(5, ScenarioRaw[2]),
                      RatMulInt(5, ScenarioRaw[3]), RatMulInt(5, ScenarioRaw[4])>>

\* the scenario's recorded losses are 0.5, 1.0, 0.5, 0.0 and their mean is 0.5
ScenarioHolds ==
    /\ ScenarioRecorded = <<Rat(1, 2), Rat(1, 1), Rat(1, 2), Rat(0, 1)>>
    /\ RatDivInt(SumSeq(ScenarioRecorded), 4) = Rat(1, 2)

\* C16: the value train() and valid() append for a batch is mse_penalty times the
\* batch's raw mean-squared error, and the value the call returns is the sum of
\* the values it appended divided by the loader's length (penalty 5 and raw losses
\* 0.1, 0.2, 0.1, 0.0 give 0.5, 1.0, 0.5, 0.0 and the mean 0.5).
C16_RecordedLossAndMean ==
    /\ (pc \in {"train_get", "train_end"} /\ i >= 1) =>
          train_loss[Len(train_loss)] = RatMulInt(mse_penalty, batch.mse)
    /\ (pc \in {"valid_get", "valid_end"} /\ i >= 1) =>
          valid_loss[Len(valid_loss)] = RatMulInt(mse_penalty, batch.mse)
    /\ AfterTrain =>
          avg_loss = RatDivInt(SumSeq(LastN(train_loss, trainloader)), trainloader)
    /\ AfterValid =>
          /\ avg_loss = RatDivInt(SumSeq(LastN(valid_loss, validloader)), validloader)
          /\ last_mean[1].mean = avg_loss
    /\ ScenarioHolds

\* train() over two batches with different losses and penalty 5 has returned
C16_Witness ==
    /\ AfterTrain
    /\ trainloader = 2
    /\ mse_penalty = 5
    /\ LastN(train_loss, 2) = <<Rat(1, 2), Rat(150000, 1)>>
    /\ avg_loss = Rat(300001, 4)

\* C17: a fresh Trainer that loaded the checkpoint written at the end of epoch
\* k-1 of a run from a fresh Trainer, and ran m epochs since, has the fixed
\* evaluation batch of that run, the run's first k epochs as a prefix of its
\* histories and sample images, history lengths and image count of k+m epochs,
\* and right after the load the best_loss and best_params the run had.
C17_ResumeEquivalence ==
    resumed > 0 =>
        /\ restored # <<>>
        /\ LET d == restored[1]
               n == resumed + epochs_done
           IN
           /\ test_content_letters = d.test_content_letters
           /\ test_style_letters = d.test_style_letters
           /\ test_style_labels = d.test_style_labels
           /\ Len(d.train_loss) = resumed * trainloader
           /\ Len(d.valid_loss) = resumed * validloader
           /\ Len(d.test_images) = resumed
           /\ IsPrefix(d.train_loss, train_loss)
           /\ IsPrefix(d.valid_loss, valid_loss)
           /\ IsPrefix(d.test_images, test_images)
           /\ BetweenEpochs =>
                 /\ Len(train_loss) = n * trainloader
                 /\ Len(valid_loss) = n * validloader
                 /\ Len(test_images) = n
           /\ (epochs_done = 0 /\ pc \in {"idle", "load_replay", "train_begin"}) =>
                 /\ best_loss = d.best_loss
                 /\ StateDictValue(best_params) = d.best_params

\* a fresh Trainer resumed after epoch 0 and ran epoch 1, sampling on the restored batch
C17_Witness ==
    /\ resumed = 1
    /\ epochs_done = 1
    /\ pc = "idle"
    /\ last_call = "run"
    /\ Len(test_images) = 2
    /\ test_images[2].content = restored[1].test_content_letters
    /\ test_images[2].content = test_images[1].content
    /\ Len(train_loss) = 2 * trainloader

\* C18: no step of valid() or of get_pred_image() takes an optimizer step or
\* changes the model parameters, the optimizer state or the gradients; valid()
\* changes of the RunState only valid_loss, best_loss and best_params, and the
\* SAMPLE step of run() only appends one image to test_images.
C18_EvalDoesNotTrain ==
    [][(pc \in ValidPcs \cup SamplePcs /\ pc' # "dead") =>
          /\ storage'.gen = storage.gen
          /\ gen_optim' = gen_optim
          /\ grads' = grads
          /\ train_loss' = train_loss
          /\ fixed_eval_batch' = fixed_eval_batch
          /\ pc \in ValidPcs =>
                /\ test_images' = test_images
                /\ valid_loss' \in {valid_loss, Append(valid_loss, loss)}
          /\ pc \in SamplePcs =>
                /\ valid_loss' = valid_loss
                /\ best_loss' = best_loss
                /\ best_params' = best_params
                /\ storage' = storage
                /\ test_images' = IF pc' = "ckpt_open"
                                  THEN Append(test_images, get_pred_image)
                                  ELSE test_images]_vars

\* the EVAL and SAMPLE steps of an epoch are over: the optimizer has taken the
\* steps of train() alone and the image shows the parameters train() left
C18_Witness ==
    /\ pc = "ckpt_open"
    /\ only_run
    /\ gen_optim.steps = (epochs_done + 1) * trainloader
    /\ Len(valid_loss) = (epochs_done + 1) * validloader
    /\ Len(test_images) = epochs_done + 1
    /\ test_images[Len(test_images)].params = storage.gen
    /\ storage.gen # 0

\* a step of load_trainer that assigns fields, a construction, or a kill
LoadOrConstruction ==
    \/ (pc = "idle" /\ (pc' = "load_replay" \/ last_call' \in {"load", "key_error"}))
    \/ last_call' = "init"
    \/ pc' = "dead"

\* C19: test_content_letters, test_style_letters and test_style_labels are
\* assigned at construction; no step of train(), valid(), get_pred_image() or
\* run() assigns them again, and load_trainer sets them to the checkpoint's values.
C19_FixedEvalBatch ==
    /\ [][fixed_eval_batch' # fixed_eval_batch => LoadOrConstruction]_vars
    /\ []((pc = "load_replay" \/ AfterLoad) =>
            /\ test_content_letters = restored[1].test_content_letters
            /\ test_style_letters = restored[1].test_style_letters
            /\ test_style_labels = restored[1].test_style_labels)

\* a Trainer that loaded a checkpoint has run an epoch and sampled on the
\* checkpoint's evaluation batch
C19_Witness ==
    /\ loaded
    /\ epochs_done >= 1
    /\ pc = "idle"
    /\ fixed_eval_batch = <<restored[1].test_content_letters,
                            restored[1].test_style_letters,
                            restored[1].test_style_labels>>
    /\ test_images[Len(test_images)].content = test_content_letters
    /\ test_images[Len(test_images)].labels = test_style_labels

\* C20: when load_trainer raises, on a file that does not unpickle or on a
\* record that lacks a field, the RunState is what it was before the call.
C20_NoPartialLoad ==
    (pc = "error" /\ before_load # <<>>) => RunState = before_load[1].state

\* the Trainer was constructed and has assigned nothing from a checkpoint since
FreshRun == ~loaded /\ pc # "dead" /\ last_call # "key_error"

\* the minimum of the initial best_loss and the validation means so far
MinWithSentinel == MinOf(<<Rat(SENTINEL, 1)>> \o valid_means)

\* best_loss is less than or equal to every validation mean so far
BelowEveryMean == \A k \in 1..Len(valid_means) : RatLeq(best_loss, valid_means[k])

\* some validation mean so far was at most the initial best_loss
SomeMeanAtMostSentinel ==
    \E k \in 1..Len(valid_means) : RatLeq(valid_means[k], Rat(SENTINEL, 1))

\* C21 as stated: on a freshly constructed Trainer best_loss is the minimum of
\* 1e5 and the validation means so far, never exceeds 1e5, and once valid() has
\* returned is less than or equal to every mean only when some mean was at most 1e5.
C21_AsStated ==
    FreshRun =>
        /\ best_loss = MinWithSentinel
        /\ RatLeq(best_loss, Rat(SENTINEL, 1))
        /\ (valid_means # <<>> /\ BelowEveryMean) => SomeMeanAtMostSentinel

\* C21 as amended: on a freshly constructed Trainer best_loss is the minimum of
\* 1e5 and the validation means so far, never exceeds 1e5, is less than or equal
\* to every mean so far, and equals one of the means only when some mean was at
\* most 1e5.
C21_SentinelMinimum ==
    FreshRun =>
        /\ best_loss = MinWithSentinel
        /\ RatLeq(best_loss, Rat(SENTINEL, 1))
        /\ BelowEveryMean
        /\ (\E k \in 1..Len(valid_means) : best_loss = valid_means[k])
              => SomeMeanAtMostSentinel

\* a mean above 1e5, which left best_loss alone, then a mean below it
C21_Witness ==
    /\ FreshRun
    /\ Len(valid_means) = 2
    /\ RatLess(Rat(SENTINEL, 1), valid_means[1])
    /\ RatLess(valid_means[2], Rat(SENTINEL, 1))
    /\ best_loss = valid_means[2]

====
